---- MODULE Spec2Model ----
(***************************************************************************)
(* SkiWithCare: the proximity filter/sort engine (useFilteredData), the    *)
(* cross-category nearest-K lookup (getNearestClinics and its siblings),   *)
(* and the zustand stores that feed them (filterStore, locationStore).     *)
(*                                                                         *)
(* Conventions of the model                                                *)
(*  - A JavaScript string is a sequence of one-character strings, so that  *)
(*    toLowerCase, trim and includes are computed, not assumed.            *)
(*  - Every modelled point lies on one meridian (same lon).  There the     *)
(*    haversine formula reduces to R * |dLat| (in radians), so a distance  *)
(*    is an exact multiple of the length of one degree.  Distances are     *)
(*    kept in thousandths of a mile.                                       *)
(*  - A JavaScript array is a record [ref, items, source]: ref says        *)
(*    whether the array IS the source collection ("source") or a newly     *)
(*    allocated one ("fresh"); source is the content of the source         *)
(*    collection, which an in-place operation on ref = "source" changes.   *)
(*  - An opaque identifier ("060096") is a one-piece string <<"060096">>.  *)
(*  - null is the record [null |-> TRUE]; an absent optional field         *)
(*    (passNetwork, distance, id) is a field missing from the record.      *)
(***************************************************************************)
EXTENDS Integers, Sequences, FiniteSets, TLC

\* ---------------------------------------------------------------- bounds

\* Longest source collection loaded by useData.
MaxItems == 2
\* Longest target collection, largest result-count limit and largest floor tried on
\* the nearest-K lookup.
MaxTargets == 3
MaxLimit == 3
MaxFloor == 3
\* location lookups in flight at a time
MaxRequests == 2
\* fetch events the service worker handles at a time
MaxFetches == 2
\* versions of a data file the server may answer with
MaxVersions == 2

\* ------------------------------------------------------------- JS values

null == [null |-> TRUE]

Abs(n) == IF n < 0 THEN -n ELSE n
Min(a, b) == IF a < b THEN a ELSE b
Max(a, b) == IF a > b THEN a ELSE b

UpperCase == <<"A","B","C","D","E","F","G","H","I","J","K","L","M",
               "N","O","P","Q","R","S","T","U","V","W","X","Y","Z">>
LowerCase == <<"a","b","c","d","e","f","g","h","i","j","k","l","m",
               "n","o","p","q","r","s","t","u","v","w","x","y","z">>

\* String.prototype.toLowerCase, one character.
lowerChar(c) ==
    IF \E i \in 1..26 : UpperCase[i] = c
    THEN LowerCase[CHOOSE i \in 1..26 : UpperCase[i] = c]
    ELSE c

\* String.prototype.toLowerCase
toLowerCase(s) == [i \in 1..Len(s) |-> lowerChar(s[i])]

\* String.prototype.trim: drops leading and trailing white space.
trim(s) ==
    LET ink == {i \in 1..Len(s) : s[i] # " "}
    IN  IF ink = {} THEN <<>>
        ELSE SubSeq(s, CHOOSE i \in ink : \A j \in ink : i <= j,
                       CHOOSE i \in ink : \A j \in ink : i >= j)

\* String.prototype.includes: q occurs in s as a contiguous substring.
includes(s, q) ==
    \E i \in 0..(Len(s) - Len(q)) : SubSeq(s, i + 1, i + Len(q)) = q

\* Array.prototype.slice(0, end) for 0 <= end.
slice(items, end) == SubSeq(items, 1, Min(end, Len(items)))

\* Array.prototype.sort(compare): stable (ES2019); a NaN from compare counts as 0.
sort(items, compare(_, _)) ==
    LET n == Len(items)
        Before(j, i) == \/ compare(items[j], items[i]) < 0
                        \/ compare(items[j], items[i]) = 0 /\ j < i
        rank(i) == Cardinality({j \in 1..n : Before(j, i)})
    IN  [k \in 1..n |-> items[CHOOSE i \in 1..n : rank(i) = k - 1]]

\* ------------------------------------------------------------- haversine

\* EARTH_RADIUS_MILES (3958.8) * pi / 180: thousandths of a mile per degree of arc.
MilliMilesPerDegree == 69094

\* maxDistance / maxMiles are whole miles; distances are thousandths of a mile.
Miles(m) == m * 1000

\* haversine(point1, point2) in miles, for two points of one meridian:
\* dLon = 0, a = sin^2(dLat/2), c = |dLat| in radians, R * c.
haversine(point1, point2) == MilliMilesPerDegree * Abs(point2.lat - point1.lat)

\* ------------------------------------------------------------ the data

\* Text of the static JSON files.
Str_Vail == <<"V","a","i","l">>
Str_Aspen == <<"A","s","p","e","n">>
Str_Alta == <<"A","l","t","a">>
Str_Stowe == <<"S","t","o","w","e">>
Str_Cooper == <<"C","o","o","p","e","r">>
Str_Frisco == <<"F","r","i","s","c","o">>
Str_Sandy == <<"S","a","n","d","y">>
Str_CO == <<"C","O">>
Str_UT == <<"U","T">>
Str_VT == <<"V","T">>
Str_davita == <<"d","a","v","i","t","a">>
Str_other == <<"o","t","h","e","r">>

\* The meridian every modelled point lies on.
Lon == 0 - 106

\* resorts.json before normalisation: id and passNetwork are optional.
RawResorts == <<
    [name |-> Str_Vail, state |-> Str_CO, lat |-> 40, lon |-> Lon,
     passNetwork |-> "epic", region |-> "rockies"],
    [id |-> Str_Aspen \o <<"|">> \o Str_CO, name |-> Str_Aspen, state |-> Str_CO,
     lat |-> 39, lon |-> Lon, passNetwork |-> "ikon", region |-> "rockies"],
    [name |-> Str_Alta, state |-> Str_UT, lat |-> 41, lon |-> Lon],
    [name |-> Str_Stowe, state |-> Str_VT, lat |-> 42, lon |-> Lon,
     passNetwork |-> "both", region |-> "northeast"],
    [name |-> Str_Cooper, state |-> Str_CO, lat |-> 42, lon |-> Lon,
     passNetwork |-> "independent", region |-> "rockies"] >>

\* clinics.json
RawClinics == <<
    [ccn |-> <<"062501">>, facility |-> Str_Vail, provider |-> Str_davita,
     city |-> Str_Frisco, state |-> Str_CO, lat |-> 39, lon |-> Lon],
    [ccn |-> <<"462502">>, facility |-> Str_Alta, provider |-> Str_other,
     city |-> Str_Sandy, state |-> Str_UT, lat |-> 41, lon |-> Lon],
    [ccn |-> <<"062503">>, facility |-> Str_Cooper,
     city |-> Str_Vail, state |-> Str_CO, lat |-> 42, lon |-> Lon] >>

\* hospitals.json
RawHospitals == <<
    [id |-> <<"060096">>, name |-> Str_Vail, city |-> Str_Vail, state |-> Str_CO,
     lat |-> 40, lon |-> Lon, hasEmergency |-> TRUE],
    [id |-> <<"460044">>, name |-> Str_Alta, city |-> Str_Sandy, state |-> Str_UT,
     lat |-> 41, lon |-> Lon, hasEmergency |-> TRUE],
    [id |-> <<"060118">>, name |-> Str_Aspen, city |-> Str_Frisco, state |-> Str_CO,
     lat |-> 38, lon |-> Lon, hasEmergency |-> FALSE] >>

\* urgent_care.json
RawUrgentCare == <<
    [id |-> <<"uc-1">>, name |-> Str_Frisco, type |-> "urgent_care", city |-> Str_Frisco,
     state |-> Str_CO, lat |-> 39, lon |-> Lon],
    [id |-> <<"uc-2">>, name |-> Str_Sandy, type |-> "urgent_care", city |-> Str_Sandy,
     state |-> Str_UT, lat |-> 41, lon |-> Lon],
    [id |-> <<"uc-3">>, name |-> Str_Vail, type |-> "urgent_care", city |-> Str_Vail,
     state |-> Str_CO, lat |-> 40, lon |-> Lon] >>

\* useData: id: r.id || `${r.name}|${r.state}`, region: r.region || "other";
\* passNetwork is left as it is in the data.
normalizeResort(r) ==
    ("id" :> (IF "id" \in DOMAIN r THEN r.id ELSE r.name \o <<"|">> \o r.state))
    @@ ("region" :> (IF "region" \in DOMAIN r THEN r.region ELSE "other"))
    @@ r

\* useData: provider: c.provider || "davita".
normalizeClinic(c) ==
    ("provider" :> (IF "provider" \in DOMAIN c THEN c.provider ELSE Str_davita)) @@ c

\* rawX.map(f)
map(items, f(_)) == [i \in 1..Len(items) |-> f(items[i])]

\* What a JSON file may hold: the records of a catalogue, none twice, in any order,
\* at most n of them.
Files(catalogue, n) ==
    LET idx == UNION {[1..k -> 1..Len(catalogue)] : k \in 0..Min(n, Len(catalogue))}
    IN  {[i \in DOMAIN s |-> catalogue[s[i]]] :
            s \in {q \in idx : \A i, j \in DOMAIN q : i # j => q[i] # q[j]}}

\* The file the loader gets when the model does not vary that collection.
Fixture(catalogue) == SubSeq(catalogue, 1, 2)

\* The four files fetched by one load: one collection varies (up to n records), the
\* others are fixtures.
DownloadsUpTo(n) ==
    {[resorts |-> f, clinics |-> Fixture(RawClinics), hospitals |-> Fixture(RawHospitals),
      urgentCare |-> Fixture(RawUrgentCare)] : f \in Files(RawResorts, n)}
    \cup
    {[resorts |-> Fixture(RawResorts), clinics |-> f, hospitals |-> Fixture(RawHospitals),
      urgentCare |-> Fixture(RawUrgentCare)] : f \in Files(RawClinics, n)}
    \cup
    {[resorts |-> Fixture(RawResorts), clinics |-> Fixture(RawClinics), hospitals |-> f,
      urgentCare |-> Fixture(RawUrgentCare)] : f \in Files(RawHospitals, n)}
    \cup
    {[resorts |-> Fixture(RawResorts), clinics |-> Fixture(RawClinics),
      hospitals |-> Fixture(RawHospitals), urgentCare |-> f] : f \in Files(RawUrgentCare, n)}

Downloads == DownloadsUpTo(MaxItems)

\* ------------------------------------------------------------- the state

VARIABLES
    \* useData
    resorts, clinics, hospitals, urgentCare, dataLoading, dataError,
    \* useFilterStore
    searchQuery, selectedState, maxDistance, passNetworks, careTypes,
    \* useLocationStore
    userLocation, mapCenter, isLoading, error,
    \* the value and the arguments of the last nearest-K lookup (null: none yet)
    nearest,
    \* useSelectionStore
    mode, selectedId, expandedId, showAllExpanded, highlightedConnectionIndex,
    \* App: mapRef.current is set, prevExpandedIdRef.current, and the calls the last
    \* step made on the map (flyTo of flyToItem, flyTo / fitBounds of the effect)
    mapRef, prevExpandedIdRef, mapCalls,
    \* useSettingsStore
    colorTheme, darkMode, distanceUnit, defaultView, defaultMaxDistance, isDrawerOpen,
    \* App: the pages of the sidebar list loaded in each mode
    pagesLoaded,
    \* the browser: navigator.geolocation is there, and the location lookups in flight
    \* (each with a note of whether clear() has run since it started)
    geolocation, pending,
    \* the service worker: the data cache (a response for each data file, or null) and
    \* the fetch events it is handling
    dataCache, fetches

dataVars == <<resorts, clinics, hospitals, urgentCare, dataLoading, dataError>>
filterVars == <<searchQuery, selectedState, maxDistance, passNetworks, careTypes>>
locationVars == <<userLocation, mapCenter, isLoading, error>>
selectionVars == <<mode, selectedId, expandedId, showAllExpanded, highlightedConnectionIndex>>
effectVars == <<prevExpandedIdRef, mapCalls>>
settingsVars ==
    <<colorTheme, darkMode, distanceUnit, defaultView, defaultMaxDistance, isDrawerOpen>>
vars == <<dataVars, filterVars, locationVars, nearest, selectionVars, mapRef, effectVars,
          settingsVars, pagesLoaded, geolocation, pending, dataCache, fetches>>

PassNetwork == {"epic", "ikon", "both", "independent"}
CareType == {"dialysis", "hospital"}

\* DEFAULT_FILTERS; selectedState: null is the empty string here, both are falsy in
\* `if (selectedState)` and the value is read nowhere else.
NoState == <<>>
DEFAULT_FILTERS ==
    [searchQuery |-> <<>>, selectedState |-> NoState, maxDistance |-> 100,
     passNetworks |-> {"epic", "ikon"}, careTypes |-> {"dialysis", "hospital"}]

\* The slider's top value, which useFilteredData reads as "no ceiling".
NoCeiling == 200

\* ----------------------------------------------------- arrays and views

\* The source collection itself, as an array.
SourceArray(items) == [ref |-> "source", items |-> items, source |-> items]

\* Array.prototype.filter: a new array of the elements that pass.
filter(a, Test(_)) == [a EXCEPT !.ref = "fresh", !.items = SelectSeq(a.items, Test)]

\* `filteredClinics = []`
emptyArray(a) == [a EXCEPT !.ref = "fresh", !.items = <<>>]

\* Array.prototype.sort sorts the array in place: when the array is the source
\* collection, the source collection is what gets reordered.
sortInPlace(a, compare(_, _)) ==
    LET s == sort(a.items, compare)
    IN  [ref |-> a.ref, items |-> s, source |-> IF a.ref = "source" THEN s ELSE a.source]

HasDistance(x) == "distance" \in DOMAIN x

\* compareDistance with the operands exchanged: farthest first.
compareDistanceDescending(a, b) ==
    IF HasDistance(a) /\ HasDistance(b) THEN b.distance - a.distance
    ELSE IF HasDistance(a) THEN 1
    ELSE IF HasDistance(b) THEN -1
    ELSE 0

\* (a, b) => (a.distance ?? Infinity) - (b.distance ?? Infinity);
\* Infinity - Infinity is NaN, which sort reads as 0.
compareDistance(a, b) ==
    IF HasDistance(a) /\ HasDistance(b) THEN a.distance - b.distance
    ELSE IF HasDistance(a) THEN -1
    ELSE IF HasDistance(b) THEN 1
    ELSE 0

\* ------------------------------------------------------ useFilteredData

\* SortOrigin with the map center taking precedence over the user location.
SortOriginMapFirst(ul, mc) ==
    IF mc # null THEN [type |-> "map", coords |-> mc]
    ELSE IF ul # null THEN [type |-> "user", coords |-> [lat |-> ul.lat, lon |-> ul.lon]]
    ELSE null

\* sortOrigin: the user location first, then the map center, else null.
SortOrigin(ul, mc) ==
    IF ul # null THEN [type |-> "user", coords |-> [lat |-> ul.lat, lon |-> ul.lon]]
    ELSE IF mc # null THEN [type |-> "map", coords |-> mc]
    ELSE null

\* withDistance writing the distance into the items of the array it is given.
withDistanceInPlace(a, sortOrigin) ==
    IF sortOrigin = null THEN a
    ELSE LET annotated == [i \in 1..Len(a.items) |->
                        ("distance" :> haversine(sortOrigin.coords,
                                                 [lat |-> a.items[i].lat, lon |-> a.items[i].lon]))
                        @@ a.items[i]]
         IN  [ref |-> a.ref, items |-> annotated,
              source |-> IF a.ref = "source" THEN annotated ELSE a.source]

\* withDistance: the array itself when there is no sort origin, else a new array of
\* copies {...item, distance}.
withDistance(a, sortOrigin) ==
    IF sortOrigin = null THEN a
    ELSE [a EXCEPT !.ref = "fresh",
                   !.items = [i \in 1..Len(a.items) |->
                        ("distance" :> haversine(sortOrigin.coords,
                                                 [lat |-> a.items[i].lat, lon |-> a.items[i].lon]))
                        @@ a.items[i]]]

\* textFilter comparing the fields as written, without lowering their case.
textFilterCaseSensitive(a, searchLower, fields) ==
    IF searchLower # <<>>
    THEN LET Test(x) == \E f \in fields : includes(x[f], searchLower)
         IN  filter(a, Test)
    ELSE a

\* textFilter requiring the query in every text field instead of in any of them.
textFilterEveryField(a, searchLower, fields) ==
    IF searchLower # <<>>
    THEN LET Test(x) == \A f \in fields : includes(toLowerCase(x[f]), searchLower)
         IN  filter(a, Test)
    ELSE a

\* if (searchLower) filter(...): the text fields are given by `fields`.
textFilter(a, searchLower, fields) ==
    IF searchLower # <<>>
    THEN LET Test(x) == \E f \in fields : includes(toLowerCase(x[f]), searchLower)
         IN  filter(a, Test)
    ELSE a

\* if (selectedState) filter(x => x.state === selectedState)
stateFilter(a, st) ==
    IF st # NoState
    THEN LET Test(x) == x.state = st IN filter(a, Test)
    ELSE a

\* passesNetworks as a plain membership test: passNetworks.has(r.passNetwork).
passesNetworksByMembership(r, pn) ==
    "passNetwork" \in DOMAIN r /\ r.passNetwork \in pn

\* passesNetworks with a dual-network resort requiring both of its networks.
passesNetworksBothRequired(r, pn) ==
    IF "passNetwork" \notin DOMAIN r THEN TRUE
    ELSE IF r.passNetwork = "both" THEN "epic" \in pn /\ "ikon" \in pn
    ELSE r.passNetwork \in pn

\* The pass-network test of one resort.
passesNetworks(r, pn) ==
    IF "passNetwork" \notin DOMAIN r THEN TRUE
    ELSE IF r.passNetwork = "both" THEN "epic" \in pn \/ "ikon" \in pn
    ELSE r.passNetwork \in pn

\* if (passNetworks.size > 0) filter(...)
networkFilter(a, pn) ==
    IF Cardinality(pn) > 0
    THEN LET Test(r) == passesNetworks(r, pn) IN filter(a, Test)
    ELSE a

\* if (careTypes.size > 0 && !careTypes.has(type)) filtered = []
careTypeFilter(a, ct, type) ==
    IF Cardinality(ct) > 0 /\ type \notin ct THEN emptyArray(a) ELSE a

\* distanceFilter with the ceiling never applied.
distanceFilterNever(a, ul, md) == a

\* distanceFilter with the ceiling applied for any reference point (userLocation not tested).
distanceFilterAnyOrigin(a, ul, md) ==
    IF md < NoCeiling
    THEN LET Test(x) == HasDistance(x) /\ x.distance <= Miles(md) IN filter(a, Test)
    ELSE a

\* if (userLocation && maxDistance < 200) filter(distance !== undefined && distance <= maxDistance)
distanceFilter(a, ul, md) ==
    IF ul # null /\ md < NoCeiling
    THEN LET Test(x) == HasDistance(x) /\ x.distance <= Miles(md) IN filter(a, Test)
    ELSE a

\* distanceSort that also sorts the source collection by distance from the origin.
distanceSortWithSource(a, sortOrigin) ==
    IF sortOrigin # null
    THEN LET FromOrigin(x, y) ==
                haversine(sortOrigin.coords, [lat |-> x.lat, lon |-> x.lon])
                - haversine(sortOrigin.coords, [lat |-> y.lat, lon |-> y.lon])
         IN  [ref |-> a.ref, items |-> sort(a.items, compareDistance),
              source |-> sort(a.source, FromOrigin)]
    ELSE a

\* if (sortOrigin) array.sort(by distance)
distanceSort(a, sortOrigin) ==
    IF sortOrigin # null THEN sortInPlace(a, compareDistance) ELSE a

\* The body of useFilteredData's useMemo: four arrays and the sort origin.
useFilteredData(rs, cs, hs, us, q, st, md, pn, ct, ul, mc) ==
    LET searchLower == trim(toLowerCase(q))
        sortOrigin == SortOrigin(ul, mc)
    IN  [resorts |->
            distanceSort(
              distanceFilter(
                networkFilter(
                  stateFilter(
                    textFilter(withDistance(SourceArray(rs), sortOrigin),
                               searchLower, {"name", "state"}),
                    st),
                  pn),
                ul, md),
              sortOrigin),
         clinics |->
            distanceSort(
              distanceFilter(
                careTypeFilter(
                  stateFilter(
                    textFilter(withDistance(SourceArray(cs), sortOrigin),
                               searchLower, {"facility", "city", "provider"}),
                    st),
                  ct, "dialysis"),
                ul, md),
              sortOrigin),
         hospitals |->
            distanceSort(
              distanceFilter(
                careTypeFilter(
                  stateFilter(
                    textFilter(withDistance(SourceArray(hs), sortOrigin),
                               searchLower, {"name", "city"}),
                    st),
                  ct, "hospital"),
                ul, md),
              sortOrigin),
         urgentCare |->
            distanceSort(
              distanceFilter(
                stateFilter(
                  textFilter(withDistance(SourceArray(us), sortOrigin),
                             searchLower, {"name", "city"}),
                  st),
                ul, md),
              sortOrigin),
         sortOrigin |-> sortOrigin]

\* What the hook returns to the current render: useMemo's value is the body applied
\* to the current dependencies (the collections and the two stores).
filtered ==
    useFilteredData(resorts, clinics, hospitals, urgentCare, searchQuery, selectedState,
                    maxDistance, passNetworks, careTypes, userLocation, mapCenter)

\* ------------------------------------------------------ nearest-K lookup

\* targets.map(t => ({...t, distance: haversine(origin, t)})): a new array.
mapDistance(a, origin) ==
    [a EXCEPT !.ref = "fresh",
              !.items = [i \in 1..Len(a.items) |->
                    ("distance" :> haversine([lat |-> origin.lat, lon |-> origin.lon],
                                             [lat |-> a.items[i].lat, lon |-> a.items[i].lon]))
                    @@ a.items[i]]]

\* (a, b) => a.distance - b.distance
compareByDistance(a, b) == a.distance - b.distance

\* sliceArray padding its result to `end` entries with empty slots.
sliceArrayPadded(a, end) ==
    [a EXCEPT !.ref = "fresh",
              !.items = [i \in 1..end |-> IF i <= Len(a.items) THEN a.items[i] ELSE null]]

\* Array.prototype.slice(0, end): a new array.
sliceArray(a, end) == [a EXCEPT !.ref = "fresh", !.items = slice(a.items, end)]

\* getNearest with the sort forgotten: the targets are taken in source order.
getNearestUnsorted(origin, targets, limit, maxMiles, minCount) ==
    LET withDist == mapDistance(SourceArray(targets), origin)
        InRange(c) == c.distance <= Miles(maxMiles)
        withinRange == filter(withDist, InRange)
    IN  IF Len(withinRange.items) >= minCount
        THEN sliceArray(withinRange, limit)
        ELSE sliceArray(withDist, Max(minCount, Min(limit, Len(withinRange.items))))

\* getNearest with the within-ceiling branch returning from all the targets.
getNearestCeilingIgnored(origin, targets, limit, maxMiles, minCount) ==
    LET withDist == sortInPlace(mapDistance(SourceArray(targets), origin), compareByDistance)
        InRange(c) == c.distance <= Miles(maxMiles)
        withinRange == filter(withDist, InRange)
    IN  IF Len(withinRange.items) >= minCount
        THEN sliceArray(withDist, limit)
        ELSE sliceArray(withDist, Max(minCount, Min(limit, Len(withinRange.items))))

\* getNearest with the relaxed branch returning every target (its slice forgotten).
getNearestUnsliced(origin, targets, limit, maxMiles, minCount) ==
    LET withDist == sortInPlace(mapDistance(SourceArray(targets), origin), compareByDistance)
        InRange(c) == c.distance <= Miles(maxMiles)
        withinRange == filter(withDist, InRange)
    IN  IF Len(withinRange.items) >= minCount
        THEN sliceArray(withinRange, limit)
        ELSE withDist

\* The body shared by getNearestClinics, getNearestResorts and
\* getNearestResortsFromHospital (origin, limit = 5, maxMiles = 100, minCount = 3).
getNearest(origin, targets, limit, maxMiles, minCount) ==
    LET withDist == sortInPlace(mapDistance(SourceArray(targets), origin), compareByDistance)
        InRange(c) == c.distance <= Miles(maxMiles)
        withinRange == filter(withDist, InRange)
    IN  IF Len(withinRange.items) >= minCount
        THEN sliceArray(withinRange, limit)
        ELSE sliceArray(withDist, Max(minCount, Min(limit, Len(withinRange.items))))

getNearestClinics(resort, limit, maxMiles, minCount) ==
    getNearest(resort, clinics, limit, maxMiles, minCount)

getNearestResorts(clinic, limit, maxMiles, minCount) ==
    getNearest(clinic, resorts, limit, maxMiles, minCount)

getNearestResortsFromHospital(hospital, limit, maxMiles, minCount) ==
    getNearest(hospital, resorts, limit, maxMiles, minCount)

\* ---------------------------------------------------------------- inputs

\* Search box contents.
Queries == {<<>>, <<"V","A">>, <<" ","c","o"," ">>}
\* State dropdown values.
States == {NoState, Str_CO}
\* Distance slider values (miles).
Distances == {100, NoCeiling}
\* Locations a GPS fix or an address lookup may give.
UserLocations ==
    {[lat |-> 39, lon |-> Lon, label |-> "Your location", source |-> "gps"],
     [lat |-> 41, lon |-> Lon, label |-> "Sandy, Utah", source |-> "address"]}
\* Centers the map may be panned to.
MapCenters == {[lat |-> 40, lon |-> Lon]}
\* Arguments of setPassNetworks / setCareTypes.
PassNetworkLists == {<<>>, <<"both">>}
CareTypeLists == {<<>>}
\* Soft ceilings tried on the nearest-K lookup (miles).
Ceilings == {50, 100, 150}

Range(seq) == {seq[i] : i \in 1..Len(seq)}

\* Default arguments of the three lookups.
DefaultLimit == 5
DefaultMaxMiles == 100
DefaultMinCount == 3

\* ------------------------------------------------- selection and settings

ViewMode == {"resorts", "clinics", "hospitals", "urgent_care"}

\* The slots of the lookups in flight, and a slot with no lookup.
Requests == 1..MaxRequests
Idle == [cleared |-> FALSE, kind |-> "none"]

\* The null of selectedId, expandedId and prevExpandedIdRef: an identifier is a string,
\* and no entity has the empty one.
NoId == <<>>

\* The service worker's data files, and the two of them the page is made to ask for.
DATA_ASSETS == {"/resorts.json", "/urgent_care.json", "/clinics.json", "/hospitals.json"}
FetchEvents == 1..MaxFetches
Versions == 1..MaxVersions
NoFetch == [state |-> "none"]
\* The data cache once install has run: cache.addAll stored a response for each file.
Installed == [asset \in DATA_ASSETS |-> [body |-> 1, ok |-> TRUE]]
\* The data cache before install, or after the browser dropped it.
Empty == [asset \in DATA_ASSETS |-> null]

DEFAULT_SETTINGS ==
    [colorTheme |-> "rose", darkMode |-> "dark", distanceUnit |-> "miles",
     defaultView |-> "resorts", defaultMaxDistance |-> 100, isDrawerOpen |-> FALSE]

\* The selection store, the App refs and the settings store as constructed (nothing
\* persisted from an earlier visit).
InitView ==
    /\ mode = "resorts"
    /\ selectedId = NoId
    /\ expandedId = NoId
    /\ showAllExpanded = FALSE
    /\ highlightedConnectionIndex = -1
    /\ mapRef = FALSE
    /\ prevExpandedIdRef = NoId
    /\ mapCalls = <<>>
    /\ colorTheme = DEFAULT_SETTINGS.colorTheme
    /\ darkMode = DEFAULT_SETTINGS.darkMode
    /\ distanceUnit = DEFAULT_SETTINGS.distanceUnit
    /\ defaultView = DEFAULT_SETTINGS.defaultView
    /\ defaultMaxDistance = DEFAULT_SETTINGS.defaultMaxDistance
    /\ isDrawerOpen = DEFAULT_SETTINGS.isDrawerOpen
    /\ pagesLoaded = [view \in ViewMode |-> 1]
    /\ pending = [i \in Requests |-> Idle]
    /\ fetches = [i \in FetchEvents |-> NoFetch]

\* Array.prototype.find on an identifier: the first item whose `key` is id, else null
\* (undefined).
find(items, key, id) ==
    CHOOSE found \in
        {IF \E i \in 1..Len(list) : list[i][key] = id
         THEN list[CHOOSE i \in 1..Len(list) :
                        /\ list[i][key] = id
                        /\ \A j \in 1..(i - 1) : list[j][key] # id]
         ELSE null : list \in {items}} : TRUE

\* The value of expandedData for the item found (null: none found) and its nearest
\* related items.
related(type, item, allRelatedItems) ==
    IF item = null THEN null
    ELSE [type |-> type, item |-> item, allRelatedItems |-> allRelatedItems]

\* The body of the expandedData memo on the values of one render: the expanded item of
\* the mode `md` and its nearest related items, null when nothing is expanded, when
\* the item is not in the filtered collection of the mode, or when the mode is none of
\* resorts, clinics, hospitals.
expandedDataOf(id, md, out, rs, cs, hs) ==
    IF id = NoId THEN null
    ELSE IF md = "resorts"
    THEN CHOOSE data \in
            {related("resort", resort,
                     IF resort = null THEN <<>>
                     ELSE getNearest(resort, cs, DefaultLimit, DefaultMaxMiles,
                                     DefaultMinCount).items
                          \o getNearest(resort, hs, DefaultLimit, DefaultMaxMiles,
                                        DefaultMinCount).items) :
                resort \in {find(out.resorts.items, "id", id)}} : TRUE
    ELSE IF md = "clinics"
    THEN CHOOSE data \in
            {related("clinic", clinic,
                     IF clinic = null THEN <<>>
                     ELSE getNearest(clinic, rs, DefaultLimit, DefaultMaxMiles,
                                     DefaultMinCount).items) :
                clinic \in {find(out.clinics.items, "ccn", id)}} : TRUE
    ELSE IF md = "hospitals"
    THEN CHOOSE data \in
            {related("hospital", hospital,
                     IF hospital = null THEN <<>>
                     ELSE getNearest(hospital, rs, DefaultLimit, DefaultMaxMiles,
                                     DefaultMinCount).items) :
                hospital \in {find(out.hospitals.items, "id", id)}} : TRUE
    ELSE null

\* expandedData of the current render.
expandedData == expandedDataOf(expandedId, mode, filtered, resorts, clinics, hospitals)

\* The body of the fit-bounds effect past its guard: no call without expandedData or
\* without the map, flyTo on an item without related items, else fitBounds on the item
\* and its related items.
centering(data, ready) ==
    IF data = null \/ ~ready THEN <<>>
    ELSE <<[call |-> IF Len(data.allRelatedItems) = 0 THEN "flyTo" ELSE "fitBounds",
            by |-> "effect", lat |-> data.item.lat, lon |-> data.item.lon,
            related |-> Len(data.allRelatedItems)]>>

\* fitBoundsEffect without its guard on prevExpandedIdRef: the body runs after every
\* render.
fitBoundsEffectUnguarded(made) ==
    /\ prevExpandedIdRef' = expandedId'
    /\ \E rs \in {resorts'}, cs \in {clinics'}, hs \in {hospitals'},
          us \in {urgentCare'}, q \in {searchQuery'}, st \in {selectedState'},
          md \in {maxDistance'}, pn \in {passNetworks'}, ct \in {careTypes'},
          ul \in {userLocation'}, mc \in {mapCenter'}, id \in {expandedId'},
          view \in {mode'}, ready \in {mapRef'} :
            \E out \in {useFilteredData(rs, cs, hs, us, q, st, md, pn, ct, ul, mc)} :
                \E data \in {expandedDataOf(id, view, out, rs, cs, hs)} :
                    mapCalls' = made \o centering(data, ready)

\* The fit-bounds effect, run after the render that follows a state change in which
\* the handler made the calls `made` on the map: it acts only when expandedId differs
\* from the one it saw last, on the expandedData of the state rendered.
fitBoundsEffect(made) ==
    IF expandedId' = prevExpandedIdRef
    THEN /\ mapCalls' = made
         /\ UNCHANGED prevExpandedIdRef
    ELSE /\ prevExpandedIdRef' = expandedId'
         /\ \E rs \in {resorts'}, cs \in {clinics'}, hs \in {hospitals'},
               us \in {urgentCare'}, q \in {searchQuery'}, st \in {selectedState'},
               md \in {maxDistance'}, pn \in {passNetworks'}, ct \in {careTypes'},
               ul \in {userLocation'}, mc \in {mapCenter'}, id \in {expandedId'},
               view \in {mode'}, ready \in {mapRef'} :
                \E out \in {useFilteredData(rs, cs, hs, us, q, st, md, pn, ct, ul, mc)} :
                    \E data \in {expandedDataOf(id, view, out, rs, cs, hs)} :
                        mapCalls' = made \o centering(data, ready)

\* The render that follows a change outside the selection store, the settings store
\* and the map: those are left as they are, and the effects run.
render ==
    /\ UNCHANGED <<selectionVars, mapRef, settingsVars, pagesLoaded, geolocation, pending, dataCache, fetches>>
    /\ fitBoundsEffect(<<>>)

\* --------------------------------------------------------------- actions

\* What a caller reads of an array: which array it is, and its elements.
View(a) == [ref |-> a.ref, items |-> a.items]

\* useData's effect: the four files arrive and are normalised.
loadFiles(d) ==
    /\ dataLoading
    /\ resorts' = map(d.resorts, normalizeResort)
    /\ clinics' = map(d.clinics, normalizeClinic)
    /\ hospitals' = d.hospitals
    /\ urgentCare' = d.urgentCare
    /\ dataLoading' = FALSE
    /\ dataError' = null
    /\ UNCHANGED <<filterVars, locationVars, nearest>>
    /\ render

\* The load of a well-formed data set.
loadData == \E d \in Downloads : loadFiles(d)

\* useData's effect: resorts.json or clinics.json could not be fetched.
loadDataFailed ==
    /\ dataLoading
    /\ dataLoading' = FALSE
    /\ dataError' = [message |-> "Failed to load resorts data"]
    /\ UNCHANGED <<resorts, clinics, hospitals, urgentCare, filterVars, locationVars, nearest>>
    /\ render

setSearchQuery(query) ==
    /\ searchQuery' = query
    /\ UNCHANGED <<selectedState, maxDistance, passNetworks, careTypes, locationVars>>
    /\ UNCHANGED <<dataVars, nearest>>
    /\ render

setSelectedState(state) ==
    /\ selectedState' = state
    /\ UNCHANGED <<searchQuery, maxDistance, passNetworks, careTypes, locationVars>>
    /\ UNCHANGED <<dataVars, nearest>>
    /\ render

setMaxDistance(distance) ==
    /\ maxDistance' = distance
    /\ UNCHANGED <<searchQuery, selectedState, passNetworks, careTypes, locationVars>>
    /\ UNCHANGED <<dataVars, nearest>>
    /\ render

\* The set after a toggle: the last member cannot be removed.
\* The toggle without its guard on the last member.
toggledFreely(set, x) == IF x \in set THEN set \ {x} ELSE set \cup {x}

toggled(set, x) ==
    IF x \in set
    THEN IF Cardinality(set) > 1 THEN set \ {x} ELSE set
    ELSE set \cup {x}

togglePassNetwork(pass) ==
    /\ passNetworks' = toggled(passNetworks, pass)
    /\ UNCHANGED <<searchQuery, selectedState, maxDistance, careTypes, locationVars>>
    /\ UNCHANGED <<dataVars, nearest>>
    /\ render

toggleCareType(type) ==
    /\ careTypes' = toggled(careTypes, type)
    /\ UNCHANGED <<searchQuery, selectedState, maxDistance, passNetworks, locationVars>>
    /\ UNCHANGED <<dataVars, nearest>>
    /\ render

setPassNetworks(passes) ==
    /\ passNetworks' = Range(passes)
    /\ UNCHANGED <<searchQuery, selectedState, maxDistance, careTypes, locationVars>>
    /\ UNCHANGED <<dataVars, nearest>>
    /\ render

setCareTypes(types) ==
    /\ careTypes' = Range(types)
    /\ UNCHANGED <<searchQuery, selectedState, maxDistance, passNetworks, locationVars>>
    /\ UNCHANGED <<dataVars, nearest>>
    /\ render

reset ==
    /\ searchQuery' = DEFAULT_FILTERS.searchQuery
    /\ selectedState' = DEFAULT_FILTERS.selectedState
    /\ maxDistance' = DEFAULT_FILTERS.maxDistance
    /\ passNetworks' = DEFAULT_FILTERS.passNetworks
    /\ careTypes' = DEFAULT_FILTERS.careTypes
    /\ UNCHANGED locationVars
    /\ UNCHANGED <<dataVars, nearest>>
    /\ render

setUserLocation(lat, lon, label, source) ==
    /\ userLocation' = [lat |-> lat, lon |-> lon, label |-> label, source |-> source]
    /\ isLoading' = FALSE
    /\ error' = null
    /\ UNCHANGED <<mapCenter, filterVars>>
    /\ UNCHANGED <<dataVars, nearest>>
    /\ render

setMapCenter(lat, lon) ==
    /\ mapCenter' = [lat |-> lat, lon |-> lon]
    /\ UNCHANGED <<userLocation, isLoading, error, filterVars>>
    /\ UNCHANGED <<dataVars, nearest>>
    /\ render

\* The lookups in flight, each noted as started before a clear().
cleared(requests) ==
    [i \in Requests |->
        IF requests[i].kind = "none" THEN requests[i]
        ELSE [cleared |-> TRUE, kind |-> requests[i].kind]]

clear ==
    /\ userLocation' = null
    /\ isLoading' = FALSE
    /\ error' = null
    /\ pending' = cleared(pending)
    /\ UNCHANGED <<mapCenter, filterVars>>
    /\ UNCHANGED <<dataVars, nearest>>
    /\ UNCHANGED <<selectionVars, mapRef, settingsVars, pagesLoaded, geolocation, dataCache, fetches>>
    /\ fitBoundsEffect(<<>>)

\* What a lookup leaves behind: its arguments, the array it returned, and the target
\* collection as the call left it.
Lookup(fn, origin, targets, limit, maxMiles, minCount, r) ==
    [fn |-> fn, origin |-> origin, targets |-> targets, limit |-> limit,
     maxMiles |-> maxMiles, minCount |-> minCount, result |-> View(r)]

callGetNearestClinics(resort, limit, maxMiles, minCount) ==
    \E r \in {getNearestClinics(resort, limit, maxMiles, minCount)} :
        /\ nearest' = Lookup("getNearestClinics", resort, clinics, limit, maxMiles, minCount, r)
        /\ clinics' = r.source
        /\ UNCHANGED <<resorts, hospitals, urgentCare, dataLoading, dataError,
                       filterVars, locationVars>>
        /\ render

callGetNearestResorts(clinic, limit, maxMiles, minCount) ==
    \E r \in {getNearestResorts(clinic, limit, maxMiles, minCount)} :
        /\ nearest' = Lookup("getNearestResorts", clinic, resorts, limit, maxMiles, minCount, r)
        /\ resorts' = r.source
        /\ UNCHANGED <<clinics, hospitals, urgentCare, dataLoading, dataError,
                       filterVars, locationVars>>
        /\ render

callGetNearestResortsFromHospital(hospital, limit, maxMiles, minCount) ==
    \E r \in {getNearestResortsFromHospital(hospital, limit, maxMiles, minCount)} :
        /\ nearest' = Lookup("getNearestResortsFromHospital", hospital, resorts,
                             limit, maxMiles, minCount, r)
        /\ resorts' = r.source
        /\ UNCHANGED <<clinics, hospitals, urgentCare, dataLoading, dataError,
                       filterVars, locationVars>>
        /\ render

\* ------------------------------------------------ selection and the map

\* MapReadyHandler hands the map to the App once: the ref is set, nothing renders.
handleMapReady ==
    /\ ~mapRef
    /\ mapRef' = TRUE
    /\ mapCalls' = <<>>
    /\ UNCHANGED <<dataVars, filterVars, locationVars, nearest, selectionVars,
                   prevExpandedIdRef, settingsVars, pagesLoaded, geolocation, pending, dataCache, fetches>>

\* What the rest of the application keeps while the selection store changes.
selectionOnly ==
    UNCHANGED <<dataVars, filterVars, locationVars, nearest, mapRef, settingsVars,
                pagesLoaded, geolocation, pending, dataCache, fetches>>

setMode(newMode) ==
    /\ mode' = newMode
    /\ selectedId' = NoId
    /\ expandedId' = NoId
    /\ showAllExpanded' = FALSE
    /\ highlightedConnectionIndex' = -1
    /\ selectionOnly
    /\ fitBoundsEffect(<<>>)

\* Header: a tab is pressed.
handleModeChange(newMode) ==
    /\ mode # newMode
    /\ setMode(newMode)

\* Header: the logo is pressed (clearSelection, then setMode("resorts")).
handleLogoClick == setMode("resorts")

\* toggleExpand that never collapses: the id given is expanded whatever was.
toggleExpandAlways(id) ==
    /\ expandedId' = id
    /\ showAllExpanded' = FALSE
    /\ highlightedConnectionIndex' = -1
    /\ UNCHANGED <<mode, selectedId>>
    /\ selectionOnly
    /\ fitBoundsEffect(<<>>)

toggleExpand(id) ==
    /\ expandedId' = IF expandedId = id THEN NoId ELSE id
    /\ showAllExpanded' = FALSE
    /\ highlightedConnectionIndex' = -1
    /\ UNCHANGED <<mode, selectedId>>
    /\ selectionOnly
    /\ fitBoundsEffect(<<>>)

select(id) ==
    /\ selectedId' = id
    /\ UNCHANGED <<mode, expandedId, showAllExpanded, highlightedConnectionIndex>>
    /\ selectionOnly
    /\ fitBoundsEffect(<<>>)

\* expand that leaves the highlighted connection as it was.
expandKeepingHighlight(id) ==
    /\ expandedId' = id
    /\ showAllExpanded' = FALSE
    /\ UNCHANGED <<mode, selectedId, highlightedConnectionIndex>>
    /\ selectionOnly
    /\ fitBoundsEffect(<<>>)

expand(id) ==
    /\ expandedId' = id
    /\ showAllExpanded' = FALSE
    /\ highlightedConnectionIndex' = -1
    /\ UNCHANGED <<mode, selectedId>>
    /\ selectionOnly
    /\ fitBoundsEffect(<<>>)

setShowAllExpanded(show) ==
    /\ showAllExpanded' = show
    /\ UNCHANGED <<mode, selectedId, expandedId, highlightedConnectionIndex>>
    /\ selectionOnly
    /\ fitBoundsEffect(<<>>)

clearSelection ==
    /\ selectedId' = NoId
    /\ expandedId' = NoId
    /\ showAllExpanded' = FALSE
    /\ highlightedConnectionIndex' = -1
    /\ UNCHANGED mode
    /\ selectionOnly
    /\ fitBoundsEffect(<<>>)

setHighlightedConnection(index) ==
    /\ highlightedConnectionIndex' = index
    /\ UNCHANGED <<mode, selectedId, expandedId, showAllExpanded>>
    /\ selectionOnly
    /\ fitBoundsEffect(<<>>)

\* The pointer enters (index) or leaves (-1) a related item of the expanded card.
handleConnectionHover(index) ==
    /\ expandedId # NoId
    /\ setHighlightedConnection(index)

\* ------------------------------------------- the rows of a resort card

\* The nearestClinics and nearestHospitals given to the card of a resort.
getNearbyClinics(resort) ==
    getNearest(resort, clinics, DefaultLimit, DefaultMaxMiles, DefaultMinCount).items

getNearbyHospitals(resort) ==
    getNearest(resort, hospitals, DefaultLimit, DefaultMaxMiles, DefaultMinCount).items

\* The rows an expanded resort card shows (0-based, as the map callbacks count them).
hospitalRows(resort) == 0..(Min(Len(getNearbyHospitals(resort)), 3) - 1)

clinicRows(resort) == 0..(Min(Len(getNearbyClinics(resort)), 2) - 1)

\* The resort cards of the list that are expanded.
expandedResorts ==
    IF dataLoading \/ dataError # null \/ mode # "resorts" THEN {}
    ELSE {resort \in Range(filtered.resorts.items) : resort.id = expandedId}

\* The null a row writes into the (numeric) index when the pointer leaves it.
NullIndex == -2

\* The pointer enters the i-th hospital row, or the row is pressed.
handleHospitalClick(resort, i) == setHighlightedConnection(i)

\* The pointer enters the i-th clinic row, or the row is pressed.
handleClinicClick(resort, i) ==
    setHighlightedConnection(Len(getNearbyHospitals(resort)) + i)

\* The pointer leaves a row.
handleRowLeave == setHighlightedConnection(NullIndex)

\* The destinations given to the connection-line layer.
destinations(data) ==
    IF data = null THEN <<>> ELSE data.allRelatedItems

\* The destinations whose line the layer draws highlighted.
highlightedDestinations(data, highlightedIndex) ==
    {destinations(data)[k] : k \in {k \in 1..Len(destinations(data)) : k - 1 = highlightedIndex}}

\* The items the current mode lists as cards and draws as markers: none while the
\* data is loading or failed to load.
listed ==
    IF dataLoading \/ dataError # null THEN {}
    ELSE IF mode = "resorts"
    THEN {[id |-> r.id, lat |-> r.lat, lon |-> r.lon] : r \in Range(filtered.resorts.items)}
    ELSE IF mode = "clinics"
    THEN {[id |-> c.ccn, lat |-> c.lat, lon |-> c.lon] : c \in Range(filtered.clinics.items)}
    ELSE IF mode = "hospitals"
    THEN {[id |-> h.id, lat |-> h.lat, lon |-> h.lon] : h \in Range(filtered.hospitals.items)}
    ELSE {[id |-> u.id, lat |-> u.lat, lon |-> u.lon] : u \in Range(filtered.urgentCare.items)}

\* A card of the list is pressed.
handleClick == \E item \in listed : toggleExpand(item.id)

\* flyToItem: one flyTo when the map is there.
flyToItem(lat, lon) ==
    IF mapRef THEN <<[call |-> "flyTo", by |-> "flyToItem", lat |-> lat, lon |-> lon]>>
    ELSE <<>>

\* A marker of the map is pressed.
handleMapSelect(id, lat, lon) ==
    /\ selectedId' = id
    /\ expandedId' = IF expandedId = id THEN NoId ELSE id
    /\ showAllExpanded' = FALSE
    /\ highlightedConnectionIndex' = -1
    /\ UNCHANGED mode
    /\ selectionOnly
    /\ fitBoundsEffect(flyToItem(lat, lon))

\* ------------------------------------------------------- location lookups

\* What the location store leaves alone, and the render that follows its change.
locationOnly ==
    /\ UNCHANGED <<dataVars, filterVars, nearest, mapCenter>>
    /\ UNCHANGED <<selectionVars, mapRef, settingsVars, pagesLoaded, geolocation, dataCache, fetches>>
    /\ fitBoundsEffect(<<>>)

\* The first slot with no lookup in it.
FreeSlot(i) ==
    /\ pending[i].kind = "none"
    /\ \A j \in Requests : j < i => pending[j].kind # "none"

started(i, kind) == [pending EXCEPT ![i] = [cleared |-> FALSE, kind |-> kind]]

completed(i) == [pending EXCEPT ![i] = Idle]

\* requestLocation up to its await: setError and return without navigator.geolocation,
\* else setLoading(true) and getCurrentPosition.
requestLocation ==
    IF ~geolocation
    THEN /\ error' = "Geolocation is not supported by your browser"
         /\ isLoading' = FALSE
         /\ UNCHANGED <<userLocation, pending>>
         /\ locationOnly
    ELSE \E i \in Requests :
            /\ FreeSlot(i)
            /\ isLoading' = TRUE
            /\ pending' = started(i, "gps")
            /\ UNCHANGED <<userLocation, error>>
            /\ locationOnly

\* The positions getCurrentPosition may resolve with, and the places an address may
\* be geocoded to.
Positions == {l \in UserLocations : l.source = "gps"}
Places == {l \in UserLocations : l.source # "gps"}

\* The messages of a rejection: the three GeolocationPositionError codes, or another.
GeolocationErrors ==
    {"Location permission denied", "Location information unavailable",
     "Location request timed out", "Unable to get your location"}

\* requestLocation after its await, the position resolved: setUserLocation.
positionResolved(i, l) ==
    /\ pending[i].kind = "gps"
    /\ userLocation' = [lat |-> l.lat, lon |-> l.lon, label |-> l.label, source |-> l.source]
    /\ isLoading' = FALSE
    /\ error' = null
    /\ pending' = completed(i)
    /\ locationOnly

\* requestLocation after its await, the position rejected: setError(message).
positionRejected(i, message) ==
    /\ pending[i].kind = "gps"
    /\ error' = message
    /\ isLoading' = FALSE
    /\ pending' = completed(i)
    /\ UNCHANGED userLocation
    /\ locationOnly

\* handleAddressSubmit up to its await: geocodeAddress is called (the store is not
\* touched).
handleAddressSubmit ==
    \E i \in Requests :
        /\ FreeSlot(i)
        /\ pending' = started(i, "address")
        /\ UNCHANGED <<userLocation, isLoading, error>>
        /\ locationOnly

\* handleAddressSubmit after its await, a place found: setUserLocation.
addressFound(i, l) ==
    /\ pending[i].kind = "address"
    /\ userLocation' = [lat |-> l.lat, lon |-> l.lon, label |-> l.label, source |-> "manual"]
    /\ isLoading' = FALSE
    /\ error' = null
    /\ pending' = completed(i)
    /\ locationOnly

\* handleAddressSubmit after its await, no place found or the lookup failed: the
\* store is not touched.
addressNotFound(i) ==
    /\ pending[i].kind = "address"
    /\ pending' = completed(i)
    /\ UNCHANGED <<userLocation, isLoading, error>>
    /\ locationOnly

\* --------------------------------------------------------- service worker

\* What the page keeps while the service worker runs.
workerOnly ==
    UNCHANGED <<dataVars, filterVars, locationVars, nearest, selectionVars, mapRef,
                effectVars, settingsVars, pagesLoaded, geolocation, pending>>

\* A fetch event for a data file arrives: respondWith(caches.open(DATA_CACHE)...).
\* `had` notes whether the cache held a copy of the file when the request was made.
fetchEvent(i, asset) ==
    /\ fetches[i].state \in {"none", "done"}
    /\ fetches' = [fetches EXCEPT ![i] =
                      [state |-> "opened", asset |-> asset, had |-> dataCache[asset] # null,
                       cachedResponse |-> null, networkResponse |-> null,
                       answer |-> null]]
    /\ UNCHANGED dataCache
    /\ workerOnly

\* What the event is answered with once cache.match has resolved: the cached
\* response if there is one, else nothing before the network has answered.
firstAnswer(cachedResponse) ==
    IF cachedResponse # null THEN [from |-> "cache", response |-> cachedResponse]
    ELSE null

\* cache.match(request) resolves and fetch(request) is started.
match(i) ==
    /\ fetches[i].state = "opened"
    /\ \E cachedResponse \in {dataCache[fetches[i].asset]} :
          fetches' = [fetches EXCEPT ![i].state = "fetching",
                                     ![i].cachedResponse = cachedResponse,
                                     ![i].answer = firstAnswer(cachedResponse)]
    /\ UNCHANGED dataCache
    /\ workerOnly

\* The fetch promise of an event settles with `settled`, which answers the event if
\* nothing has answered it.
settle(i, networkResponse, settled) ==
    [fetches EXCEPT ![i].state = "done",
                    ![i].networkResponse = networkResponse,
                    ![i].answer = IF @ # null THEN @ ELSE settled]

\* cache.put whatever the response is.
putAlways(cache, asset, networkResponse) ==
    [cache EXCEPT ![asset] = networkResponse]

\* if (networkResponse.ok) cache.put(request, networkResponse.clone())
put(cache, asset, networkResponse) ==
    IF networkResponse.ok THEN [cache EXCEPT ![asset] = networkResponse] ELSE cache

\* The network answers with a response, ok or not.
networkResponds(i, networkResponse) ==
    /\ fetches[i].state = "fetching"
    /\ dataCache' = put(dataCache, fetches[i].asset, networkResponse)
    /\ fetches' = settle(i, networkResponse,
                         [from |-> "network", response |-> networkResponse])
    /\ workerOnly

\* The network fails: the catch returns cachedResponse (undefined when there is none).
networkFails(i) ==
    /\ fetches[i].state = "fetching"
    /\ fetches' = settle(i, [failed |-> TRUE],
                         IF fetches[i].cachedResponse # null
                         THEN [from |-> "cache", response |-> fetches[i].cachedResponse]
                         ELSE [from |-> "nothing"])
    /\ UNCHANGED dataCache
    /\ workerOnly

\* The responses the network may give: a version of the file, or an error page.
OkResponses == {[body |-> v, ok |-> TRUE] : v \in Versions}
NotOkResponses == {[body |-> 0, ok |-> FALSE]}

\* ------------------------------------------------------------- pagination

\* The page of the sidebar list, scaled to the collections of the model (50 in the
\* source).
ITEMS_PER_PAGE == 1

\* The length of the filtered collection of a mode.
totalCount(view) ==
    IF view = "resorts" THEN Len(filtered.resorts.items)
    ELSE IF view = "clinics" THEN Len(filtered.clinics.items)
    ELSE IF view = "hospitals" THEN Len(filtered.hospitals.items)
    ELSE Len(filtered.urgentCare.items)

currentTotalCount == totalCount(mode)

visibleCount == pagesLoaded[mode] * ITEMS_PER_PAGE

hasMoreItems == visibleCount < currentTotalCount

\* Load More is pressed: the button is there while more items remain and the data is
\* not loading.
handleLoadMore ==
    /\ hasMoreItems
    /\ ~dataLoading
    /\ pagesLoaded' = [pagesLoaded EXCEPT ![mode] = @ + 1]
    /\ UNCHANGED <<dataVars, filterVars, locationVars, nearest, selectionVars, mapRef,
                   settingsVars, geolocation, pending, dataCache, fetches>>
    /\ fitBoundsEffect(<<>>)

\* --------------------------------------------------------------- settings

ColorTheme == {"rose", "alpine", "glacier"}
DarkMode == {"dark", "light", "auto"}
DistanceUnit == {"miles", "km"}
DefaultDistances == {25, 50, 100, 200}

\* What the rest of the application keeps while the settings store changes; the App
\* renders and its effects run.
settingsOnly ==
    /\ UNCHANGED <<dataVars, filterVars, locationVars, nearest, selectionVars, mapRef,
                   pagesLoaded, geolocation, pending, dataCache, fetches>>
    /\ fitBoundsEffect(<<>>)

setColorTheme(theme) ==
    /\ colorTheme' = theme
    /\ UNCHANGED <<darkMode, distanceUnit, defaultView, defaultMaxDistance, isDrawerOpen>>
    /\ settingsOnly

setDarkMode(newMode) ==
    /\ darkMode' = newMode
    /\ UNCHANGED <<colorTheme, distanceUnit, defaultView, defaultMaxDistance, isDrawerOpen>>
    /\ settingsOnly

setDistanceUnit(unit) ==
    /\ distanceUnit' = unit
    /\ UNCHANGED <<colorTheme, darkMode, defaultView, defaultMaxDistance, isDrawerOpen>>
    /\ settingsOnly

setDefaultView(view) ==
    /\ defaultView' = view
    /\ UNCHANGED <<colorTheme, darkMode, distanceUnit, defaultMaxDistance, isDrawerOpen>>
    /\ settingsOnly

setDefaultMaxDistance(distance) ==
    /\ defaultMaxDistance' = distance
    /\ UNCHANGED <<colorTheme, darkMode, distanceUnit, defaultView, isDrawerOpen>>
    /\ settingsOnly

toggleDrawer ==
    /\ isDrawerOpen' = ~isDrawerOpen
    /\ UNCHANGED <<colorTheme, darkMode, distanceUnit, defaultView, defaultMaxDistance>>
    /\ settingsOnly

openDrawer ==
    /\ isDrawerOpen' = TRUE
    /\ UNCHANGED <<colorTheme, darkMode, distanceUnit, defaultView, defaultMaxDistance>>
    /\ settingsOnly

closeDrawer ==
    /\ isDrawerOpen' = FALSE
    /\ UNCHANGED <<colorTheme, darkMode, distanceUnit, defaultView, defaultMaxDistance>>
    /\ settingsOnly

\* set(DEFAULT_SETTINGS)
resetToDefaults ==
    /\ colorTheme' = DEFAULT_SETTINGS.colorTheme
    /\ darkMode' = DEFAULT_SETTINGS.darkMode
    /\ distanceUnit' = DEFAULT_SETTINGS.distanceUnit
    /\ defaultView' = DEFAULT_SETTINGS.defaultView
    /\ defaultMaxDistance' = DEFAULT_SETTINGS.defaultMaxDistance
    /\ isDrawerOpen' = DEFAULT_SETTINGS.isDrawerOpen
    /\ settingsOnly

\* ------------------------------------------------------- specifications

\* The application as constructed: nothing loaded, default filters, no location.
Constructed ==
    /\ resorts = <<>> /\ clinics = <<>> /\ hospitals = <<>> /\ urgentCare = <<>>
    /\ dataLoading = TRUE
    /\ dataError = null
    /\ searchQuery = DEFAULT_FILTERS.searchQuery
    /\ selectedState = DEFAULT_FILTERS.selectedState
    /\ maxDistance = DEFAULT_FILTERS.maxDistance
    /\ passNetworks = DEFAULT_FILTERS.passNetworks
    /\ careTypes = DEFAULT_FILTERS.careTypes
    /\ userLocation = null
    /\ mapCenter = null
    /\ isLoading = FALSE
    /\ error = null
    /\ nearest = null
    /\ InitView

\* The application in a browser that has geolocation.
Init ==
    /\ Constructed
    /\ geolocation = TRUE
    /\ dataCache = Installed

\* The stores and the filter/sort pipeline.
Next ==
    \/ loadData
    \/ loadDataFailed
    \/ \E query \in Queries : setSearchQuery(query)
    \/ \E state \in States : setSelectedState(state)
    \/ \E distance \in Distances : setMaxDistance(distance)
    \/ \E pass \in {"epic", "ikon"} : togglePassNetwork(pass)
    \/ \E type \in CareType : toggleCareType(type)
    \/ \E passes \in PassNetworkLists : setPassNetworks(passes)
    \/ \E types \in CareTypeLists : setCareTypes(types)
    \/ reset
    \/ \E l \in UserLocations : setUserLocation(l.lat, l.lon, l.label, l.source)
    \/ \E c \in MapCenters : setMapCenter(c.lat, c.lon)
    \/ clear

Spec == Init /\ [][Next]_vars

\* The expanded card collapses: its neighbour list is dropped.
collapse ==
    /\ nearest # null
    /\ nearest' = null
    /\ UNCHANGED <<dataVars, filterVars, locationVars>>
    /\ render

\* The nearest-K lookups, with every argument, on the loaded collections; one
\* neighbour list is held at a time.
NextNearest ==
    \/ collapse
    \/ \E resort \in Range(resorts), limit \in 0..MaxLimit, maxMiles \in Ceilings,
          minCount \in 0..MaxFloor :
            nearest = null /\ callGetNearestClinics(resort, limit, maxMiles, minCount)
    \/ \E clinic \in Range(clinics), limit \in 0..MaxLimit, maxMiles \in Ceilings,
          minCount \in 0..MaxFloor :
            nearest = null /\ callGetNearestResorts(clinic, limit, maxMiles, minCount)
    \/ \E hospital \in Range(hospitals), limit \in 0..MaxLimit, maxMiles \in Ceilings,
          minCount \in 0..MaxFloor :
            nearest = null /\ callGetNearestResortsFromHospital(hospital, limit, maxMiles, minCount)

\* The application once its data is loaded (any files of up to MaxTargets records),
\* with the stores as constructed.
InitNearest ==
    /\ \E d \in DownloadsUpTo(MaxTargets) :
         /\ resorts = map(d.resorts, normalizeResort)
         /\ clinics = map(d.clinics, normalizeClinic)
         /\ hospitals = d.hospitals
         /\ urgentCare = d.urgentCare
    /\ dataLoading = FALSE
    /\ dataError = null
    /\ searchQuery = DEFAULT_FILTERS.searchQuery
    /\ selectedState = DEFAULT_FILTERS.selectedState
    /\ maxDistance = DEFAULT_FILTERS.maxDistance
    /\ passNetworks = DEFAULT_FILTERS.passNetworks
    /\ careTypes = DEFAULT_FILTERS.careTypes
    /\ userLocation = null
    /\ mapCenter = null
    /\ isLoading = FALSE
    /\ error = null
    /\ nearest = null
    /\ InitView
    /\ geolocation = TRUE
    /\ dataCache = Installed

SpecNearest == InitNearest /\ [][NextNearest]_vars


\* resorts.json as any deployment may serve it: besides the well-formed records, a
\* second id-less resort of the same name and state as the first, and a record
\* without coordinates.
AnyResorts ==
    RawResorts \o
    << [name |-> Str_Vail, state |-> Str_CO, lat |-> 38, lon |-> Lon, region |-> "rockies"],
       [name |-> Str_Frisco, state |-> Str_CO, passNetwork |-> "epic", region |-> "rockies"] >>

\* clinics.json likewise: besides the well-formed records, a record without
\* coordinates.
AnyClinics ==
    RawClinics \o
    << [ccn |-> <<"062504">>, facility |-> Str_Sandy, provider |-> Str_other,
        city |-> Str_Sandy, state |-> Str_UT] >>

\* The four files of one load, resorts.json and clinics.json being any files of up to
\* n records.
AnyDownloadsUpTo(n) ==
    {[resorts |-> r, clinics |-> c, hospitals |-> Fixture(RawHospitals),
      urgentCare |-> Fixture(RawUrgentCare)] :
        r \in Files(AnyResorts, n), c \in Files(AnyClinics, n)}

AnyDownloads == AnyDownloadsUpTo(MaxItems)

\* The page is reloaded: every hook and store is constructed anew.
reload ==
    /\ dataLoading = FALSE
    /\ resorts' = <<>> /\ clinics' = <<>> /\ hospitals' = <<>> /\ urgentCare' = <<>>
    /\ dataLoading' = TRUE
    /\ dataError' = null
    /\ searchQuery' = DEFAULT_FILTERS.searchQuery
    /\ selectedState' = DEFAULT_FILTERS.selectedState
    /\ maxDistance' = DEFAULT_FILTERS.maxDistance
    /\ passNetworks' = DEFAULT_FILTERS.passNetworks
    /\ careTypes' = DEFAULT_FILTERS.careTypes
    /\ userLocation' = null
    /\ mapCenter' = null
    /\ isLoading' = FALSE
    /\ error' = null
    /\ nearest' = null
    /\ mode' = "resorts"
    /\ selectedId' = NoId
    /\ expandedId' = NoId
    /\ showAllExpanded' = FALSE
    /\ highlightedConnectionIndex' = -1
    /\ mapRef' = FALSE
    /\ prevExpandedIdRef' = NoId
    /\ mapCalls' = <<>>
    /\ UNCHANGED <<colorTheme, darkMode, distanceUnit, defaultView, defaultMaxDistance>>
    /\ isDrawerOpen' = FALSE
    /\ pagesLoaded' = [view \in ViewMode |-> 1]
    /\ pending' = [i \in Requests |-> Idle]
    /\ UNCHANGED <<geolocation, dataCache, fetches>>

\* The loader on whatever files are served, and page reloads.
NextLoad ==
    \/ \E d \in AnyDownloads : loadFiles(d)
    \/ loadDataFailed
    \/ reload

SpecLoad == Init /\ [][NextLoad]_vars

\* The map is created in the commits of the mount, the data files arrive from the
\* network after that: the load follows handleMapReady.
loadDataMounted ==
    /\ mapRef
    /\ loadData

\* The application with its map: selection, expansion and the renders that a change
\* of the filters or of the location causes.
NextCentering ==
    \/ handleMapReady
    \/ loadDataMounted
    \/ \E newMode \in ViewMode : handleModeChange(newMode)
    \/ handleLogoClick
    \/ handleClick
    \/ \E item \in listed : handleMapSelect(item.id, item.lat, item.lon)
    \/ \E index \in {-1, 0} : handleConnectionHover(index)
    \/ \E query \in Queries : setSearchQuery(query)
    \/ \E l \in UserLocations : setUserLocation(l.lat, l.lon, l.label, l.source)

SpecCentering == Init /\ [][NextCentering]_vars

\* The stores without the two setters of the inclusion sets: the sets change by the
\* toggles and by reset only.
NextToggles ==
    \/ loadData
    \/ loadDataFailed
    \/ \E query \in Queries : setSearchQuery(query)
    \/ \E state \in States : setSelectedState(state)
    \/ \E distance \in Distances : setMaxDistance(distance)
    \/ \E pass \in {"epic", "ikon"} : togglePassNetwork(pass)
    \/ \E type \in CareType : toggleCareType(type)
    \/ reset
    \/ \E l \in UserLocations : setUserLocation(l.lat, l.lon, l.label, l.source)
    \/ \E c \in MapCenters : setMapCenter(c.lat, c.lon)
    \/ clear

SpecToggles == Init /\ [][NextToggles]_vars

\* The sidebar list: its pages, the modes and the queries that change its length.
NextPagination ==
    \/ loadData
    \/ \E newMode \in ViewMode : handleModeChange(newMode)
    \/ handleLogoClick
    \/ handleLoadMore
    \/ \E query \in Queries : setSearchQuery(query)

SpecPagination == Init /\ [][NextPagination]_vars

\* The application in any browser.
InitLocation ==
    /\ Constructed
    /\ geolocation \in BOOLEAN
    /\ dataCache = Installed

\* The location store with its lookups in flight.
NextLocation ==
    \/ requestLocation
    \/ \E i \in Requests, l \in Positions : positionResolved(i, l)
    \/ \E i \in Requests, message \in GeolocationErrors : positionRejected(i, message)
    \/ handleAddressSubmit
    \/ \E i \in Requests, l \in Places : addressFound(i, l)
    \/ \E i \in Requests : addressNotFound(i)
    \/ clear
    \/ \E c \in MapCenters : setMapCenter(c.lat, c.lon)

SpecLocation == InitLocation /\ [][NextLocation]_vars

\* The list of resorts, one card expanded, and the pointer over its rows.
NextConnections ==
    \/ loadData
    \/ handleClick
    \/ \E resort \in expandedResorts :
          \E i \in hospitalRows(resort) : handleHospitalClick(resort, i)
    \/ \E resort \in expandedResorts :
          \E i \in clinicRows(resort) : handleClinicClick(resort, i)
    \/ expandedResorts # {} /\ handleRowLeave
    \/ \E query \in Queries : setSearchQuery(query)

SpecConnections == Init /\ [][NextConnections]_vars

\* The source collections, in the order of Outputs.
Sources == <<resorts, clinics, hospitals, urgentCare>>

\* The identifier of an entity: a clinic's certification number, else the id.
Identifier(x) == IF "ccn" \in DOMAIN x THEN x.ccn ELSE x.id

\* The ids the selection store is given: null, or the id of a loaded resort or clinic.
SelectableIds ==
    {NoId} \cup UNION {{Identifier(x) : x \in Range(Sources[k])} : k \in 1..2}

\* The selection store, every action of it.
NextSelection ==
    \/ loadData
    \/ \E newMode \in ViewMode : setMode(newMode)
    \/ \E id \in SelectableIds : select(id)
    \/ \E id \in SelectableIds : expand(id)
    \/ \E id \in SelectableIds \ {NoId} : toggleExpand(id)
    \/ \E show \in BOOLEAN : setShowAllExpanded(show)
    \/ \E index \in {-1, 0} : setHighlightedConnection(index)
    \/ clearSelection

SpecSelection == Init /\ [][NextSelection]_vars

\* The data files the page asks for.
Requested == {"/resorts.json", "/clinics.json"}

\* The service worker with its data cache filled by install, or empty.
InitWorker ==
    /\ Constructed
    /\ geolocation = TRUE
    /\ dataCache \in {Installed, Empty}

\* The service worker answering the page's requests for data files.
NextWorker ==
    \/ \E i \in FetchEvents, asset \in Requested : fetchEvent(i, asset)
    \/ \E i \in FetchEvents : match(i)
    \/ \E i \in FetchEvents, r \in OkResponses \cup NotOkResponses : networkResponds(i, r)
    \/ \E i \in FetchEvents : networkFails(i)

SpecWorker == InitWorker /\ [][NextWorker]_vars

\* The settings store and its drawer.
NextSettings ==
    \/ \E theme \in ColorTheme : setColorTheme(theme)
    \/ \E newMode \in DarkMode : setDarkMode(newMode)
    \/ \E unit \in DistanceUnit : setDistanceUnit(unit)
    \/ \E view \in ViewMode \ {"urgent_care"} : setDefaultView(view)
    \/ \E distance \in DefaultDistances : setDefaultMaxDistance(distance)
    \/ toggleDrawer
    \/ openDrawer
    \/ closeDrawer
    \/ resetToDefaults

SpecSettings == Init /\ [][NextSettings]_vars

\* ================================================================ claims

\* The targets of the last lookup that lie within its soft ceiling, counted from the
\* coordinates.
WithinCeiling(l) ==
    {i \in 1..Len(l.targets) :
        haversine([lat |-> l.origin.lat, lon |-> l.origin.lon],
                  [lat |-> l.targets[i].lat, lon |-> l.targets[i].lon]) <= Miles(l.maxMiles)}

\* C1 (as claimed): whenever the target collection is non-empty and has at least
\* `floor` members, the lookup returns at least min(floor, number of targets) entries,
\* for every limit, ceiling and floor.
C1_FloorGuarantee ==
    (nearest # null /\ Len(nearest.targets) >= 1 /\ Len(nearest.targets) >= nearest.minCount)
        => Len(nearest.result.items) >= Min(nearest.minCount, Len(nearest.targets))

\* C2 (as claimed): the lookup never returns more than `limit` entries.
C2_NeverMoreThanLimit ==
    nearest # null => Len(nearest.result.items) <= nearest.limit

\* C2 (amended): the lookup never returns more than max(limit, floor) entries, hence
\* never more than `limit` when the floor does not exceed the limit.
C2_AtMostLimitOrFloor ==
    nearest # null =>
        /\ Len(nearest.result.items) <= Max(nearest.limit, nearest.minCount)
        /\ nearest.minCount <= nearest.limit
              => Len(nearest.result.items) <= nearest.limit

\* C2 witness: the ceiling was relaxed to reach the floor (an entry beyond the ceiling
\* is returned), the floor does not exceed the limit, and a target was left out.
C2_Witness ==
    /\ nearest # null
    /\ nearest.minCount <= nearest.limit
    /\ Cardinality(WithinCeiling(nearest)) < nearest.minCount
    /\ \E i \in 1..Len(nearest.result.items) :
          nearest.result.items[i].distance > Miles(nearest.maxMiles)
    /\ Len(nearest.result.items) < Len(nearest.targets)

\* ---- the filter criteria, read from the stores as the specification words them

\* The source record of an output entity: the entity without its computed distance.
SourceOf(x) == [f \in DOMAIN x \ {"distance"} |-> x[f]]
SourcesOf(items) == [i \in 1..Len(items) |-> SourceOf(items[i])]

QueryText == trim(toLowerCase(searchQuery))

PassesText(x, fields) ==
    QueryText = <<>> \/ \E f \in fields : includes(toLowerCase(x[f]), QueryText)

PassesRegion(x) == selectedState = NoState \/ x.state = selectedState

PassesNetwork(r) ==
    \/ passNetworks = {}
    \/ "passNetwork" \notin DOMAIN r
    \/ r.passNetwork = "both" /\ passNetworks \cap {"epic", "ikon"} # {}
    \/ r.passNetwork # "both" /\ r.passNetwork \in passNetworks

PassesCareType(type) == careTypes = {} \/ type \in careTypes

ResortPasses(r) == PassesText(r, {"name", "state"}) /\ PassesRegion(r) /\ PassesNetwork(r)
ClinicPasses(c) ==
    PassesText(c, {"facility", "city", "provider"}) /\ PassesRegion(c) /\ PassesCareType("dialysis")
HospitalPasses(h) ==
    PassesText(h, {"name", "city"}) /\ PassesRegion(h) /\ PassesCareType("hospital")
UrgentCarePasses(f) == PassesText(f, {"name", "city"}) /\ PassesRegion(f)

\* Distance of an entity from a point, from the coordinates.
DistanceFrom(p, x) == haversine([lat |-> p.lat, lon |-> p.lon], [lat |-> x.lat, lon |-> x.lon])

WithinUserCeiling(x) == DistanceFrom(userLocation, x) <= Miles(maxDistance)

\* The output `items` holds, once each, exactly the members of `source` that satisfy P.
HoldsExactly(items, source, P(_)) ==
    /\ Range(SourcesOf(items)) = {x \in Range(source) : P(x)}
    /\ Cardinality(Range(SourcesOf(items))) = Len(items)

\* C3: with a user location and a ceiling below 200, each filtered collection holds
\* exactly the entities that pass the other filters and lie within the ceiling of the
\* user location.
C3_CeilingFromUserLocation ==
    (userLocation # null /\ maxDistance < NoCeiling) =>
        LET out == filtered
            R(x) == ResortPasses(x) /\ WithinUserCeiling(x)
            C(x) == ClinicPasses(x) /\ WithinUserCeiling(x)
            H(x) == HospitalPasses(x) /\ WithinUserCeiling(x)
            U(x) == UrgentCarePasses(x) /\ WithinUserCeiling(x)
        IN  /\ HoldsExactly(out.resorts.items, resorts, R)
            /\ HoldsExactly(out.clinics.items, clinics, C)
            /\ HoldsExactly(out.hospitals.items, hospitals, H)
            /\ HoldsExactly(out.urgentCare.items, urgentCare, U)

\* C3 witness: a user location and a ceiling below 200 are set, and the ceiling keeps
\* one resort that passes the other filters and drops another.
C3_Witness ==
    /\ userLocation # null
    /\ maxDistance < NoCeiling
    /\ filtered.resorts.items # <<>>
    /\ \E r \in Range(resorts) : ResortPasses(r) /\ ~WithinUserCeiling(r)

\* The ceiling values the slider can be set to, from its minimum to its maximum.
CeilingValues == {0, 50, 100, 199, NoCeiling}

\* The four output collections as sequences of entities.
Outputs(out) ==
    <<out.resorts.items, out.clinics.items, out.hospitals.items, out.urgentCare.items>>

\* C4: without a user location (map center or no reference point at all) the filtered
\* output is the same for every value of the configured maximum distance.
C4_CeilingInertWithoutUserLocation ==
    userLocation = null =>
        \A out \in {Outputs(filtered)} :
            \A d \in CeilingValues :
                Outputs(useFilteredData(resorts, clinics, hospitals, urgentCare, searchQuery,
                                        selectedState, d, passNetworks, careTypes,
                                        userLocation, mapCenter)) = out

\* C4 witness: the reference point is the map center, the ceiling is below 200, and a
\* resort farther from the map center than the ceiling is in the filtered output.
C4_Witness ==
    /\ userLocation = null
    /\ mapCenter # null
    /\ maxDistance < NoCeiling
    /\ \E i \in 1..Len(filtered.resorts.items) :
            DistanceFrom(mapCenter, filtered.resorts.items[i]) > Miles(maxDistance)

\* Whether the distance filter lets x through: it applies only with a user location
\* and a ceiling below 200.
PassesCeiling(x) ==
    (userLocation # null /\ maxDistance < NoCeiling) => WithinUserCeiling(x)

InFilteredResorts(r) == r \in Range(SourcesOf(filtered.resorts.items))

\* C5: a resort with no pass network that passes the text, region and distance filters
\* is in the filtered resorts, whatever the active inclusion set.
C5_UnaffiliatedNeverExcluded ==
    \A r \in Range(resorts) :
        ("passNetwork" \notin DOMAIN r /\ PassesText(r, {"name", "state"})
            /\ PassesRegion(r) /\ PassesCeiling(r))
        => InFilteredResorts(r)

\* C5 witness: a resort with no pass network is in the filtered resorts while the
\* inclusion set is non-empty and drops another resort.
C5_Witness ==
    /\ passNetworks # {}
    /\ \E r \in Range(resorts) : "passNetwork" \notin DOMAIN r /\ InFilteredResorts(r)
    /\ \E r \in Range(resorts) :
            /\ PassesText(r, {"name", "state"}) /\ PassesRegion(r) /\ PassesCeiling(r)
            /\ ~InFilteredResorts(r)

IsDual(r) == "passNetwork" \in DOMAIN r /\ r.passNetwork = "both"

PassesAllButNetwork(r) == PassesText(r, {"name", "state"}) /\ PassesRegion(r) /\ PassesCeiling(r)

\* C6 (as claimed): a resort of pass network "both" that passes the text, region and
\* distance filters is in the filtered resorts if and only if epic or ikon is in the
\* inclusion set.
C6_DualIffEitherActive ==
    \A r \in Range(resorts) :
        (IsDual(r) /\ PassesAllButNetwork(r))
        => (InFilteredResorts(r) <=> passNetworks \cap {"epic", "ikon"} # {})

\* C6 (amended): such a resort is in the filtered resorts if and only if epic or ikon
\* is in the inclusion set or the inclusion set is empty.
C6_DualIffEitherActiveOrNoneSet ==
    \A r \in Range(resorts) :
        (IsDual(r) /\ PassesAllButNetwork(r))
        => (InFilteredResorts(r) <=> (passNetworks \cap {"epic", "ikon"} # {} \/ passNetworks = {}))

\* C6 witness: a dual-network resort is in the filtered resorts with exactly one of
\* its two networks in the inclusion set.
C6_Witness ==
    /\ Cardinality(passNetworks \cap {"epic", "ikon"}) = 1
    /\ \E r \in Range(resorts) : IsDual(r) /\ InFilteredResorts(r)

\* The distances along `items` never decrease, and an item without a distance comes
\* only after every item with one.
SortedByDistance(items) ==
    \A i, j \in 1..Len(items) :
        i < j =>
            /\ HasDistance(items[j]) => HasDistance(items[i])
            /\ (HasDistance(items[i]) /\ HasDistance(items[j]))
                    => items[i].distance <= items[j].distance

\* C7: whenever a reference point is set, each filtered collection is in non-decreasing
\* order of distance, with any entity lacking a distance after all those that have one.
C7_SortCorrectness ==
    \A out \in {filtered} :
        out.sortOrigin # null =>
            \A k \in 1..4 : SortedByDistance(Outputs(out)[k])

\* The members of `source` that appear in `items`, in source order.
InSourceOrder(items, source) ==
    LET Kept(x) == x \in Range(SourcesOf(items)) IN SelectSeq(source, Kept)

\* C7 witness: a reference point is set and the filtered resorts, at differing
\* distances, come out in an order other than the source's.
C7_Witness ==
    \E out \in {filtered} :
        /\ out.sortOrigin # null
        /\ Len(out.resorts.items) >= 2
        /\ out.resorts.items[1].distance < out.resorts.items[Len(out.resorts.items)].distance
        /\ SourcesOf(out.resorts.items) # InSourceOrder(out.resorts.items, resorts)

\* C8: the resolved reference point is the user location, tagged "user", whenever one
\* is set; otherwise the map center, tagged "map", whenever one is known; otherwise none.
C8_ReferencePointPriority ==
    filtered.sortOrigin =
        IF userLocation # null
        THEN [type |-> "user", coords |-> [lat |-> userLocation.lat, lon |-> userLocation.lon]]
        ELSE IF mapCenter # null
        THEN [type |-> "map", coords |-> [lat |-> mapCenter.lat, lon |-> mapCenter.lon]]
        ELSE null

\* C8 witness: a user location and a different map center are both set, and the
\* reference point is the user location.
C8_Witness ==
    /\ userLocation # null
    /\ mapCenter # null
    /\ mapCenter.lat # userLocation.lat
    /\ filtered.sortOrigin.type = "user"
    /\ filtered.sortOrigin.coords.lat = userLocation.lat

\* C9: with neither a user location nor a map center, no output entity has a distance
\* and each output collection is the source collection's entities passing the text,
\* region and category filters, in source order.
C9_NoReferencePoint ==
    (userLocation = null /\ mapCenter = null) =>
        \A out \in {filtered} :
            /\ \A k \in 1..4 : \A i \in 1..Len(Outputs(out)[k]) : ~HasDistance(Outputs(out)[k][i])
            /\ out.resorts.items = SelectSeq(resorts, ResortPasses)
            /\ out.clinics.items = SelectSeq(clinics, ClinicPasses)
            /\ out.hospitals.items = SelectSeq(hospitals, HospitalPasses)
            /\ out.urgentCare.items = SelectSeq(urgentCare, UrgentCarePasses)

\* C9 witness: no reference point is set, the ceiling is below 200, a text query is
\* set, and the filtered resorts are some but not all of the loaded ones.
C9_Witness ==
    /\ userLocation = null
    /\ mapCenter = null
    /\ maxDistance < NoCeiling
    /\ QueryText # <<>>
    /\ Len(filtered.resorts.items) >= 1
    /\ Len(filtered.resorts.items) < Len(resorts)

\* The source collections as the filtering of the current state leaves them.
SourcesAfterFiltering(out) ==
    <<out.resorts.source, out.clinics.source, out.hospitals.source, out.urgentCare.source>>

\* The four arrays the filtering returns.
Arrays(out) == <<out.resorts, out.clinics, out.hospitals, out.urgentCare>>

\* Every nearest-K lookup the page makes for the entities on display (default limit,
\* ceiling and floor) leaves its target collection as it was and returns a new array.
LookupsLeaveSources(out) ==
    /\ \A i \in 1..Len(out.resorts.items) :
            \A r \in {getNearestClinics(out.resorts.items[i],
                                        DefaultLimit, DefaultMaxMiles, DefaultMinCount)} :
                r.source = clinics /\ r.ref = "fresh"
    /\ \A i \in 1..Len(out.clinics.items) :
            \A r \in {getNearestResorts(out.clinics.items[i],
                                        DefaultLimit, DefaultMaxMiles, DefaultMinCount)} :
                r.source = resorts /\ r.ref = "fresh"
    /\ \A i \in 1..Len(out.hospitals.items) :
            \A r \in {getNearestResortsFromHospital(out.hospitals.items[i],
                                        DefaultLimit, DefaultMaxMiles, DefaultMinCount)} :
                r.source = resorts /\ r.ref = "fresh"

\* C10 (as claimed): filtering, sorting and nearest-K lookup leave every source
\* collection as it was, and every returned collection is a new array, never the source
\* collection itself (stated for the states in which the collections are loaded).
C10_SourcesIntactAlwaysNewView ==
    dataLoading = FALSE =>
    \A out \in {filtered} :
        /\ SourcesAfterFiltering(out) = <<resorts, clinics, hospitals, urgentCare>>
        /\ \A k \in 1..4 : Arrays(out)[k].ref = "fresh"
        /\ LookupsLeaveSources(out)

\* C10 (amended): every source collection is left as it was; every nearest-K result
\* and, whenever a reference point is set, every filtered collection is a new array;
\* a filtered collection that is the source collection itself has the source's
\* members in the source's order.
C10_SourcesIntact ==
    \A out \in {filtered} :
        /\ SourcesAfterFiltering(out) = <<resorts, clinics, hospitals, urgentCare>>
        /\ out.sortOrigin # null => \A k \in 1..4 : Arrays(out)[k].ref = "fresh"
        /\ \A k \in 1..4 :
                Arrays(out)[k].ref = "source"
                    => Arrays(out)[k].items = <<resorts, clinics, hospitals, urgentCare>>[k]
        /\ LookupsLeaveSources(out)

\* C10 witness: a reference point is set and the filtered resorts come out annotated
\* and in an order other than the source's, which still has its own order.
C10_Witness ==
    \E out \in {filtered} :
        /\ out.sortOrigin # null
        /\ Len(out.resorts.items) = Len(resorts)
        /\ Len(resorts) >= 2
        /\ SourcesOf(out.resorts.items) # resorts
        /\ out.resorts.source = resorts

\* Distance of target x from the origin of lookup l, from the coordinates.
TargetDistance(l, x) == DistanceFrom(l.origin, x)

\* C11: the list a nearest-K lookup returns is in ascending order of distance from the
\* origin, and its first entry is a member of the target collection at the least
\* distance from the origin over the whole collection.
C11_NearestRanking ==
    nearest # null =>
        \A items \in {nearest.result.items} :
            /\ \A i, j \in 1..Len(items) : i < j => items[i].distance <= items[j].distance
            /\ \A i \in 1..Len(items) :
                    /\ SourceOf(items[i]) \in Range(nearest.targets)
                    /\ items[i].distance = TargetDistance(nearest, items[i])
            /\ items # <<>> =>
                    \A t \in Range(nearest.targets) :
                        items[1].distance <= TargetDistance(nearest, t)

\* C11 witness: a lookup returned two entries at different distances, and the first
\* member of the target collection is not the nearest one.
C11_Witness ==
    /\ nearest # null
    /\ Len(nearest.result.items) >= 2
    /\ nearest.result.items[1].distance < nearest.result.items[2].distance
    /\ SourceOf(nearest.result.items[1]) # nearest.targets[1]
    /\ TargetDistance(nearest, nearest.targets[1]) > nearest.result.items[1].distance

\* The within-ceiling targets of lookup l, nearest first (ties in source order).
WithinCeilingNearestFirst(l) ==
    LET Near(x) == TargetDistance(l, x) <= Miles(l.maxMiles)
        Closer(a, b) == TargetDistance(l, a) - TargetDistance(l, b)
    IN  sort(SelectSeq(l.targets, Near), Closer)

Recompute(out, q, st, md, pn, ct, ul, mc) ==
    useFilteredData(out.resorts.source, out.clinics.source, out.hospitals.source,
                    out.urgentCare.source, q, st, md, pn, ct, ul, mc)

\* The same, after a nearest-K lookup from the first resort and one from the first
\* clinic have run on those collections.
RecomputeAfterLookups(out, q, st, md, pn, ct, ul, mc) ==
    LET rs == out.resorts.source
        cs == out.clinics.source
        cs2 == IF rs = <<>> THEN cs
               ELSE getNearest(rs[1], cs, DefaultLimit, DefaultMaxMiles, DefaultMinCount).source
        rs2 == IF cs2 = <<>> THEN rs
               ELSE getNearest(cs2[1], rs, DefaultLimit, DefaultMaxMiles, DefaultMinCount).source
    IN  useFilteredData(rs2, cs2, out.hospitals.source, out.urgentCare.source,
                        q, st, md, pn, ct, ul, mc)

\* The reference points a computation in between may use: each user location, and
\* each map center without a user location.
OtherReferencePoints ==
    {<<ul, null>> : ul \in UserLocations} \cup {<<null, mc>> : mc \in MapCenters}

\* C13: computing the filtered collections, then computing them for any other
\* reference point and running nearest-K lookups, then computing them again for the
\* first criteria and reference point gives the first output again, member for member
\* and in the same order.
C13_FilterIdempotence ==
    \A out \in {filtered} :
        \A p \in OtherReferencePoints :
            \A between \in {Recompute(out, searchQuery, selectedState, maxDistance,
                                      passNetworks, careTypes, p[1], p[2])} :
                Outputs(RecomputeAfterLookups(between, searchQuery, selectedState, maxDistance,
                                              passNetworks, careTypes, userLocation, mapCenter))
                    = Outputs(out)

\* C13 witness: two filtered resorts are at the same distance from the reference point,
\* and the computation for another reference point gives a different output.
C13_Witness ==
    \E out \in {filtered} :
        /\ out.sortOrigin # null
        /\ \E i \in 1..Len(out.resorts.items) :
                /\ i < Len(out.resorts.items)
                /\ out.resorts.items[i].distance = out.resorts.items[i + 1].distance
        /\ \E p \in OtherReferencePoints :
                SourcesOf(Recompute(out, searchQuery, selectedState, maxDistance, passNetworks,
                                    careTypes, p[1], p[2]).resorts.items)
                    # SourcesOf(out.resorts.items)

\* A query of white space only (the empty query included).
Blank(q) == \A i \in 1..Len(q) : q[i] = " "

\* q, compared without regard to case, is a substring of one of the fields of x.
TextMatches(x, fields, q) == \E f \in fields : includes(toLowerCase(x[f]), toLowerCase(q))

\* The relevant text fields of the four collections, in the order of Outputs.
TextFields ==
    <<{"name", "state"}, {"facility", "city", "provider"}, {"name", "city"}, {"name", "city"}>>

\* The filtered collections of the current state as they would be with no query.
Unqueried ==
    Outputs(useFilteredData(resorts, clinics, hospitals, urgentCare, <<>>, selectedState,
                            maxDistance, passNetworks, careTypes, userLocation, mapCenter))

\* What the text filter keeps of `items` for the query q (q not blank).
KeptByText(items, fields, q) ==
    LET Test(x) == TextMatches(x, fields, q) IN SelectSeq(items, Test)

\* C14 (as claimed): a blank query excludes no entity; otherwise an entity is kept if
\* and only if the query as typed, compared without regard to case, is a substring of
\* one of its relevant text fields.
C14_TextFilterQueryAsTyped ==
    \A out \in {Outputs(filtered)}, base \in {Unqueried} :
        \A k \in 1..4 :
            out[k] = IF Blank(searchQuery) THEN base[k]
                     ELSE KeptByText(base[k], TextFields[k], searchQuery)

\* C14 (amended): a blank query excludes no entity; otherwise an entity is kept if and
\* only if the query with its leading and trailing white space removed, compared
\* without regard to case, is a substring of one of its relevant text fields.
C14_TextFilterTrimmedQuery ==
    \A out \in {Outputs(filtered)}, base \in {Unqueried} :
        \A k \in 1..4 :
            out[k] = IF Blank(searchQuery) THEN base[k]
                     ELSE KeptByText(base[k], TextFields[k], trim(searchQuery))

\* C14 witness: the query has white space around it and differs from the fields in
\* case, and the text filter keeps one resort and drops another.
C14_Witness ==
    /\ ~Blank(searchQuery)
    /\ trim(searchQuery) # searchQuery
    /\ \E r \in Range(Unqueried[1]) :
            /\ r \in Range(Outputs(filtered)[1])
            /\ \A f \in TextFields[1] : ~includes(r[f], trim(searchQuery))
    /\ \E r \in Range(Unqueried[1]) : r \notin Range(Outputs(filtered)[1])

\* C15: whatever the filter criteria and the reference point, the filtered view of an
\* empty collection is the empty list, and a nearest-K lookup on an empty target
\* collection returns the empty list (a value, not an error) for every limit,
\* ceiling and floor.
C15_EmptyCollections ==
    /\ \A out \in {Outputs(filtered)} : \A k \in 1..4 : Sources[k] = <<>> => out[k] = <<>>
    /\ clinics = <<>> =>
            \A r \in Range(resorts), limit \in 0..MaxLimit, maxMiles \in Ceilings,
               minCount \in 0..MaxFloor :
                getNearestClinics(r, limit, maxMiles, minCount).items = <<>>
    /\ resorts = <<>> =>
            /\ \A c \in Range(clinics), limit \in 0..MaxLimit, maxMiles \in Ceilings,
                  minCount \in 0..MaxFloor :
                    getNearestResorts(c, limit, maxMiles, minCount).items = <<>>
            /\ \A h \in Range(hospitals), limit \in 0..MaxLimit, maxMiles \in Ceilings,
                  minCount \in 0..MaxFloor :
                    getNearestResortsFromHospital(h, limit, maxMiles, minCount).items = <<>>

\* C15 witness: the clinics file was empty while resorts are loaded, with a text
\* query, a user location and a ceiling below 200 in force, and a resort on display
\* from which the clinics are looked up.
C15_Witness ==
    /\ dataLoading = FALSE
    /\ clinics = <<>>
    /\ ~Blank(searchQuery)
    /\ userLocation # null
    /\ maxDistance < NoCeiling
    /\ filtered.resorts.items # <<>>
    /\ filtered.clinics.items = <<>>

\* C16 (as claimed): after loading, every resort has an identifier and no two members
\* of a collection have the same identifier.
C16_IdentifiersUnique ==
    /\ \A r \in Range(resorts) : "id" \in DOMAIN r
    /\ \A k \in 1..4 :
            \A i, j \in 1..Len(Sources[k]) :
                i # j => Identifier(Sources[k][i]) # Identifier(Sources[k][j])

\* C17 (as claimed): every member of a loaded collection has a latitude and a
\* longitude.
C17_LoadedEntitiesHaveCoordinates ==
    \A k \in 1..4 :
        \A x \in Range(Sources[k]) : "lat" \in DOMAIN x /\ "lon" \in DOMAIN x

\* The calls of a step that the fit-bounds effect made.
EffectCalls(calls) == {i \in 1..Len(calls) : calls[i].by = "effect"}

\* C18: the fit-bounds effect makes a centering call (fitBounds or flyTo) only in a
\* step in which the expanded id changes, and changes to a non-null id: a render with
\* the same expanded id and a collapse make none.
C18_CentersOnlyOnNewExpandedId ==
    [][EffectCalls(mapCalls') # {} => (expandedId' # expandedId /\ expandedId' # NoId)]_vars

\* C18 witness: an item is expanded and has its expandedData, the map is there, and
\* the last step (a render that kept the expanded id) made no call on the map.
C18_Witness ==
    /\ expandedId # NoId
    /\ mapRef
    /\ mapCalls = <<>>
    /\ expandedData # null

\* The expanded id is the identifier of a loaded item.
ExpandedExists ==
    \E k \in 1..4 : \E x \in Range(Sources[k]) : Identifier(x) = expandedId

\* C19 (as claimed): every step that changes the expanded id to the id of an existing
\* item centers the map (any call on the map in that step is counted).
C19_EveryExpansionCenters ==
    [][(expandedId' # expandedId /\ ExpandedExists') => mapCalls' # <<>>]_vars

\* The defaults as claimed: the dark mode follows the system.
ClaimedDefaults ==
    /\ colorTheme = "rose"
    /\ darkMode = "auto"
    /\ distanceUnit = "miles"
    /\ defaultView = "resorts"
    /\ defaultMaxDistance = 100
    /\ isDrawerOpen = FALSE

\* C20 (as claimed): whatever the settings and the drawer were, resetToDefaults leaves
\* colorTheme 'rose', darkMode 'auto', distanceUnit 'miles', defaultView 'resorts',
\* defaultMaxDistance 100 and the drawer closed.
C20_ResetRestoresClaimedDefaults ==
    [][resetToDefaults => ClaimedDefaults']_vars

\* The cards of `cards` drawn as expanded when the expanded id is `id`
\* (isExpanded = expandedId === item id).
ExpandedCards(cards, id) == {c \in cards : c.id = id}

\* C21: a press on a listed card that is not expanded leaves it the only expanded card
\* of the list, and a press on the expanded card leaves no card expanded.
C21_ExpansionIsToggle ==
    [][\A k \in 1..4 :
          \A x \in Range(Sources[k]) :
             toggleExpand(Identifier(x)) =>
                \A cards \in {listed} :
                   \A c \in cards :
                      c.id = Identifier(x) =>
                         ExpandedCards(cards, expandedId') =
                            IF c \in ExpandedCards(cards, expandedId) THEN {} ELSE {c}]_vars

\* C21 witness: two cards or more are listed, the step just taken expanded one of
\* them (the effect centered on it), and it is the only expanded card.
C21_Witness ==
    /\ Cardinality(listed) >= 2
    /\ Cardinality(ExpandedCards(listed, expandedId)) = 1
    /\ EffectCalls(mapCalls) # {}

\* C22: with the inclusion sets changed by togglePassNetwork, toggleCareType and reset
\* only, the active pass-network set and the active care-type set are never empty.
C22_InclusionSetsNonEmpty ==
    /\ passNetworks # {}
    /\ careTypes # {}

\* C22 witness: each set is down to its last member, an earlier toggle having removed
\* the other one.
C22_Witness ==
    /\ Cardinality(passNetworks) = 1
    /\ Cardinality(careTypes) = 1

\* C23 (as claimed): right after a change of mode the list shows its first page only,
\* ITEMS_PER_PAGE items at most.
C23_FirstPageAfterModeChange ==
    [][mode' # mode =>
        \A view \in {mode'} :
            Min(pagesLoaded'[view] * ITEMS_PER_PAGE, totalCount(view)) <= ITEMS_PER_PAGE]_vars

IsIndependent(r) == "passNetwork" \in DOMAIN r /\ r.passNetwork = "independent"

\* C24 (as claimed): a resort whose pass network is the value "independent" and that
\* passes the text, region and distance filters is in the filtered resorts, whatever
\* the active inclusion set (as a resort with no pass network is).
C24_IndependentNeverExcluded ==
    dataLoading = FALSE =>
        \A r \in Range(resorts) :
            (IsIndependent(r) /\ PassesAllButNetwork(r)) => InFilteredResorts(r)

\* C25 (as claimed): after a press on the marker of an item, that item is the selected
\* item and the expanded item, whatever was selected and expanded before.
C25_MarkerClickSelectsAndExpands ==
    [][\A k \in 1..4 :
          \A x \in Range(Sources[k]) :
             handleMapSelect(Identifier(x), x.lat, x.lon) =>
                (selectedId' = Identifier(x) /\ expandedId' = Identifier(x))]_vars

\* A requestLocation call has started and has not completed.
InFlight == \E i \in Requests : pending[i].kind = "gps"

\* C26 (as claimed): isLoading is true exactly while a requestLocation call is in
\* flight.
C26_LoadingIffInFlight == isLoading <=> InFlight

\* C27 (as claimed): the completion of a lookup started before a clear() leaves the
\* user location as the clear (or a later lookup) left it.
C27_ClearedLookupNeverSets ==
    [][\A i \in Requests :
          (pending[i].cleared /\ pending'[i].kind = "none") =>
              userLocation' = userLocation]_vars

\* C28 (as claimed): entering or pressing the i-th hospital or clinic row of the
\* expanded resort card highlights exactly the connection line drawn to that
\* facility, and leaving the row restores the index -1.
C28_RowHighlightsItsOwnLine ==
    [][\A resort \in expandedResorts :
          \A data \in {expandedData} :
             /\ \A i \in hospitalRows(resort) :
                   handleHospitalClick(resort, i) =>
                      highlightedDestinations(data, highlightedConnectionIndex') =
                         {getNearbyHospitals(resort)[i + 1]}
             /\ \A i \in clinicRows(resort) :
                   handleClinicClick(resort, i) =>
                      highlightedDestinations(data, highlightedConnectionIndex') =
                         {getNearbyClinics(resort)[i + 1]}
             /\ handleRowLeave => highlightedConnectionIndex' = -1]_vars

\* C29: a step that changes the view mode or the expanded item leaves
\* showAllExpanded false and the highlighted connection index -1; a step that
\* changes the view mode, and clearSelection, leave no item selected and no item
\* expanded; so does setMode, expand and toggleExpand whatever they are given.
C29_SelectionResets ==
    [][/\ (mode' # mode \/ expandedId' # expandedId) =>
             (showAllExpanded' = FALSE /\ highlightedConnectionIndex' = -1)
       /\ mode' # mode => (selectedId' = NoId /\ expandedId' = NoId)
       /\ \A id \in SelectableIds :
             (expand(id) \/ toggleExpand(id)) =>
                 (showAllExpanded' = FALSE /\ highlightedConnectionIndex' = -1)
       /\ \A newMode \in ViewMode :
             (setMode(newMode) \/ clearSelection) =>
                 /\ selectedId' = NoId /\ expandedId' = NoId
                 /\ showAllExpanded' = FALSE /\ highlightedConnectionIndex' = -1]_vars

\* A mode other than the first has been set, and an item has been selected, expanded
\* in full and a connection of it highlighted since.
C29_Witness ==
    /\ mode # "resorts"
    /\ selectedId # NoId /\ expandedId # NoId
    /\ showAllExpanded /\ highlightedConnectionIndex >= 0

\* C30: a fetch event for a data file made while the cache holds a copy of it is
\* answered with the cached copy, and the copy of a file in the cache changes only
\* in a step in which the network answers a request for that file with an ok
\* response, to that response.
C30_CacheFirstAndOnlyOkReplaces ==
    [][/\ \A i \in FetchEvents :
             (/\ fetches[i].state \in {"opened", "fetching"}
              /\ fetches[i].had
              /\ fetches[i].answer = null
              /\ fetches'[i].answer # null) =>
                 fetches'[i].answer = [from |-> "cache",
                                       response |-> dataCache[fetches[i].asset]]
       /\ \A asset \in DATA_ASSETS :
             dataCache'[asset] # dataCache[asset] =>
                \E i \in FetchEvents :
                   /\ fetches[i].state = "fetching"
                   /\ fetches[i].asset = asset
                   /\ fetches'[i].state = "done"
                   /\ fetches'[i].networkResponse \in OkResponses
                   /\ dataCache'[asset] = fetches'[i].networkResponse]_vars

\* A request made with a copy in the cache has been answered from the cache, the
\* network has then answered it with an error page, and another request has replaced
\* the copy by a newer version.
C30_Witness ==
    \E i, j \in FetchEvents :
        /\ fetches[i].state = "done" /\ fetches[i].had
        /\ fetches[i].answer.from = "cache"
        /\ fetches[i].networkResponse \in NotOkResponses
        /\ fetches[j].state = "done"
        /\ fetches[j].networkResponse \in OkResponses
        /\ dataCache[fetches[j].asset] = fetches[j].networkResponse
        /\ dataCache[fetches[j].asset] # Installed[fetches[j].asset]

====
